---- MODULE Spec2Model ----
(***************************************************************************)
(* Model of the HNSW wrapper of sercha-cli (src/cgo/hnsw/hnsw_wrapper.cpp):*)
(* one index instance over one storage path, its identifier registry, the  *)
(* ANN primitive (hnswlib) behind it, and the files that close writes and  *)
(* open reads.                                                             *)
(*                                                                         *)
(* Vectors are modelled by their first component (the others are zero), so *)
(* a vector of the index is an integer and normalisation maps it to its    *)
(* sign.  Labels are naturals; label L lives at position L+1 of the        *)
(* sequence label_to_id.                                                   *)
(***************************************************************************)
EXTENDS Integers, Sequences, FiniteSets, TLC

\* ---------------------------------------------------------------- bounds
MaxLabel == 3       \* adds stop once next_label reaches this value
MaxSessions == 2    \* number of create/open sessions on the path
MaxK == 2           \* largest k passed to search
MaxCalls == 3       \* calls issued in the concurrent specification
MaxComp == 3        \* largest component of a vector handed to the int8 codec

\* ------------------------------------------------------- program constants
HNSW_PRECISION_FLOAT32 == 0
HNSW_PRECISION_FLOAT16 == 1
HNSW_PRECISION_INT8 == 2
DefaultMaxElements == 100000

\* ------------------------------------------------------------ input sets
Precisions == {HNSW_PRECISION_FLOAT32, HNSW_PRECISION_FLOAT16, HNSW_PRECISION_INT8}
Dims == {1, 2}            \* dimension arguments of open, add and search
CreateDims == {0, 2}      \* dimension argument of create (0 is rejected)
Caps == {0, 1, 2}         \* capacity argument of create (0 is rejected)
ChunkIds == {"a", "b", ""}
RawComps == {-2, 1}       \* first component of an added vector (not normalised)
QueryComps == {0, 1}      \* first component of a query vector
Faults == {"none", "resize", "insert"}
SaveFaults == {"none", "mapping_fails", "mapping_throws", "artifact_fails", "artifact_throws"}
Threads == {1, 2}

NoLabel == -1
EmptyMap == [i \in ChunkIds |-> NoLabel]
NoMapFile == [exists |-> FALSE, prec |-> 0, count |-> 0, next_label |-> 0, slots |-> <<>>]
NoIndexFile == [exists |-> FALSE, max |-> 0, elems |-> {}]
NoVecFile == [exists |-> FALSE, num_vectors |-> 0, dimensions |-> 0, recs |-> <<>>]
NoLast == [op |-> "none", id |-> "", ret |-> 0, label |-> NoLabel, old |-> NoLabel, threw |-> "none", badarg |-> FALSE, uaf |-> FALSE, d |-> 0, cap |-> 0, k |-> 0, res |-> <<>>]
NoCall == [op |-> "none", id |-> "", x |-> 0, d |-> 0, k |-> 0, fault |-> "none"]
NotCreated == [dim |-> 0, prec |-> 0]
NoCodec == [stage |-> "none", in |-> <<>>, scale |-> [num |-> 0, den |-> 1], codes |-> <<>>, out |-> <<>>]
NoSnap == [taken |-> FALSE, id_to_label |-> EmptyMap, label_to_id |-> <<>>, next_label |-> 0]

VARIABLES
    h,              \* the caller's handle: "null", "open", or "freed" (dangling)
    alloc,          \* which of the instance, the space and the hnsw are allocated
    hnsw_max,       \* HierarchicalNSW::max_elements_
    hnsw_elems,     \* elements of the ANN primitive: [label, v, del]
    id_to_label,    \* HnswIndex::id_to_label (NoLabel = no entry)
    label_to_id,    \* HnswIndex::label_to_id
    dimension,      \* HnswIndex::dimension
    max_elements,   \* HnswIndex::max_elements
    next_label,     \* HnswIndex::next_label
    modified,       \* HnswIndex::modified
    precision,      \* HnswIndex::precision
    mapFile,        \* <path>/id_mapping.bin
    indexFile,      \* <path>/index.bin
    vecFile,        \* <path>/vectors.f16 or vectors.i8
    last,           \* the last call: its arguments, return value and results
    session,        \* number of successful create/open calls so far
    maxAssigned,    \* largest label a successful add of this session was given (NoLabel: none)
    maxAssignedPrev,\* largest label a successful add of an earlier session was given
    delState,       \* per identifier: 1 = the last call that changed its registry entry
                    \* was a delete, 2 = the same and the index has been closed since,
                    \* 0 = otherwise
    preClose,       \* the registry as it was when the last saving close began
    everFaulted,    \* some resize or insertion of the ANN primitive has faulted
    created,        \* the dimension and precision the index on the path was created with
    mutex,          \* HnswIndex::mutex: 0 = unlocked, else the owning thread
    pc,             \* per thread: "idle", "wait", "cs", "unlock"
    call,           \* per thread: the call in progress
    calls,          \* calls issued so far in the concurrent specification
    codec           \* a vector on its way through quantize_vector_int8 and back

inst == <<alloc, hnsw_max, hnsw_elems, id_to_label, label_to_id, dimension, max_elements, next_label, modified, precision>>
disk == <<mapFile, indexFile, vecFile>>
ghost == <<session, maxAssigned, maxAssignedPrev, delState, preClose, everFaulted, created>>
thr == <<mutex, pc, call, calls>>
vars == <<h, inst, disk, last, ghost, thr, codec>>

\* ------------------------------------------------------------- helpers
Max2(a, b) == IF a >= b THEN a ELSE b

\* label_to_id[label] for a label inside the vector
SlotAt(slots, label) == slots[label + 1]

\* std::vector::resize(n) on a vector of strings: new slots are empty strings
ResizeSlots(slots, n) ==
    IF n <= Len(slots) THEN SubSeq(slots, 1, n)
    ELSE slots \o [i \in 1..(n - Len(slots)) |-> ""]


\* ------------------------------------------------------- PrecisionCodec
\* normalize_vector on a vector whose only non-zero component is x:
\* norm = |x|, and x / norm is the sign of x; the zero vector is left alone
normalize_vector(x) == IF x > 0 THEN 1 ELSE IF x < 0 THEN -1 ELSE 0

AbsInt(x) == IF x < 0 THEN -x ELSE x

\* float_to_half on the floats -1.0, 0.0, 1.0: sign, unbiased exponent and
\* mantissa of the float32, then the branches of the code
float_to_half(v) ==
    LET sign == IF v < 0 THEN 1 ELSE 0
        exp == IF v = 0 THEN -127 ELSE 0
        mantissa == 0
    IN  IF exp < -24 THEN sign * 32768
        ELSE sign * 32768 + (exp + 15) * 1024 + (mantissa \div 8192)

\* half_to_float on the codes float_to_half produces for -1.0, 0.0, 1.0
half_to_float(c) ==
    LET sign == (c \div 32768) % 2
        exp == (c \div 1024) % 32
        mantissa == c % 1024
    IN  IF exp = 0 /\ mantissa = 0 THEN 0
        ELSE IF exp = 15 /\ mantissa = 0 THEN (IF sign = 1 THEN -1 ELSE 1)
        ELSE 0

\* std::round of the rational n / d (d > 0): halves go away from zero
RoundDiv(n, d) ==
    IF n >= 0 THEN (2 * n + d) \div (2 * d) ELSE -((d - 2 * n) \div (2 * d))

\* std::max(-127.0f, std::min(127.0f, val)); the limits are integers, so
\* clamping before rounding and after it give the same code
Clamp127(c) == IF c > 127 THEN 127 ELSE IF c < -127 THEN -127 ELSE c

\* mutant: the scale of the zero vector is 0
int8_scale_zero(max_abs) ==
    IF max_abs > 0 THEN [num |-> max_abs, den |-> 127] ELSE [num |-> 0, den |-> 1]

\* scale = (max_abs > 0) ? max_abs / 127.0f : 1.0f, kept as the pair num/den
int8_scale(max_abs) ==
    IF max_abs > 0 THEN [num |-> max_abs, den |-> 127] ELSE [num |-> 1, den |-> 1]

\* out[i] = round(clamp(in[i] * inv_scale)), inv_scale = 127 / max_abs or 0
int8_code(x, max_abs) ==
    IF max_abs > 0 THEN Clamp127(RoundDiv(x * 127, max_abs)) ELSE 0

\* the loop that finds max_abs
RECURSIVE int8_max_abs(_)
int8_max_abs(in) ==
    IF in = <<>> THEN 0 ELSE Max2(AbsInt(Head(in)), int8_max_abs(Tail(in)))

\* quantize_vector_int8 on a whole vector: the scale and one code per component
quantize_vector_int8_dim(in) ==
    LET max_abs == int8_max_abs(in)
    IN  [scale |-> int8_scale(max_abs),
         codes |-> [i \in 1..Len(in) |-> int8_code(in[i], max_abs)]]

\* quantize_vector_int8 on a vector whose only non-zero component is v
quantize_vector_int8(v) ==
    LET qr == quantize_vector_int8_dim(<<v, 0>>)
    IN  [num |-> qr.scale.num, den |-> qr.scale.den, code |-> qr.codes[1]]

\* dequantize_vector_int8: code * scale
dequantize_vector_int8(code, num, den) == (code * num) \div den

\* ------------------------------------------ the ANN primitive (hnswlib)
\* HierarchicalNSW<float> keeps one element per label; markDelete sets a
\* flag and keeps the element.  These operators follow hnswlib's contract
\* at the places where the wrapper calls it.
hnsw_labels(elems) == {e.label : e \in elems}
hnsw_elem(elems, label) == CHOOSE e \in elems : e.label = label
cur_element_count(elems) == Cardinality(elems)

\* markDelete throws for an unknown label and for one already marked
markDelete_throws(elems, label) ==
    \/ label \notin hnsw_labels(elems)
    \/ hnsw_elem(elems, label).del

markDelete(elems, label) ==
    {IF e.label = label THEN [e EXCEPT !.del = TRUE] ELSE e : e \in elems}

\* addPoint of a new label throws when the index is full; addPoint of a
\* known label replaces its vector and clears its deletion mark
addPoint_throws(elems, max, label) ==
    /\ label \notin hnsw_labels(elems)
    /\ cur_element_count(elems) >= max

addPoint(elems, v, label) ==
    {e \in elems : e.label # label} \cup {[label |-> label, v |-> v, del |-> FALSE]}

\* resizeIndex throws when the new size is below the element count
resizeIndex_throws(elems, new_max) == new_max < cur_element_count(elems)

\* getDataByLabel throws for an unknown label and for one marked deleted
getDataByLabel_throws(elems, label) ==
    \/ label \notin hnsw_labels(elems)
    \/ hnsw_elem(elems, label).del

\* InnerProductSpace: distance = 1 - <q, v>
Distance(q, v) == 1 - q * v

\* searchKnn: the results the primitive may return for k: min(k, live)
\* elements that are not marked deleted, none farther than one left out
searchKnn(elems, q, k) ==
    LET live == {e \in elems : ~e.del}
        n == IF k < Cardinality(live) THEN k ELSE Cardinality(live)
    IN  {S \in SUBSET live :
            /\ Cardinality(S) = n
            /\ \A e \in S : \A f \in live \ S : Distance(q, e.v) <= Distance(q, f.v)}

\* the order in which hnsw_search emits a result set: the priority queue
\* pops the largest (distance, label) pair first and the loop at the end
\* reverses, so the output ascends by (distance, label)
\* mutant: the results are emitted in the order the queue pops them
PairGreater(q, e, f) ==
    \/ Distance(q, e.v) > Distance(q, f.v)
    \/ Distance(q, e.v) = Distance(q, f.v) /\ e.label > f.label

PairLess(q, e, f) ==
    \/ Distance(q, e.v) < Distance(q, f.v)
    \/ Distance(q, e.v) = Distance(q, f.v) /\ e.label < f.label

RECURSIVE BestFirst(_, _)
BestFirst(S, q) ==
    IF S = {} THEN <<>>
    ELSE LET m == CHOOSE e \in S : \A f \in S \ {e} : PairLess(q, e, f)
         IN  <<m>> \o BestFirst(S \ {m}, q)


\* ------------------------------------------------------ PersistenceCodec
\* save_id_mappings: precision, slot count, next_label, then one
\* (label, length, bytes) triple per slot in ascending label order
save_id_mappings(prec, slots, next) ==
    [exists |-> TRUE, prec |-> prec, count |-> Len(slots), next_label |-> next,
     slots |-> [i \in 1..Len(slots) |-> [label |-> i - 1, id |-> slots[i]]]]

\* mutant: the precision keeps the default hnsw_open starts with
load_precision_default(f) == HNSW_PRECISION_FLOAT32

\* load_id_mappings: the precision is read from the file
load_precision(f) == f.prec

\* mutant: next_label keeps the 0 that hnsw_open starts with
load_next_label_reset(f) == 0

\* load_id_mappings: next_label is read from the file
load_next_label(f) == f.next_label

\* load_id_mappings, the forward vector: resize(count), then each triple whose
\* label is inside the vector is stored at its label
load_label_to_id(f) ==
    [i \in 1..f.count |->
        IF \E j \in 1..Len(f.slots) : f.slots[j].label = i - 1
        THEN f.slots[CHOOSE j \in 1..Len(f.slots) :
                        /\ f.slots[j].label = i - 1
                        /\ \A m \in 1..Len(f.slots) : f.slots[m].label = i - 1 => m <= j].id
        ELSE ""]

\* load_id_mappings, the reverse map: triples are replayed in file order and
\* every non-empty identifier is (re)assigned, so the last triple naming an
\* identifier wins
load_id_to_label(f) ==
    [id \in ChunkIds |->
        IF id # "" /\ \E j \in 1..Len(f.slots) : f.slots[j].id = id /\ f.slots[j].label < f.count
        THEN f.slots[CHOOSE j \in 1..Len(f.slots) :
                        /\ f.slots[j].id = id /\ f.slots[j].label < f.count
                        /\ \A m \in 1..Len(f.slots) :
                              (f.slots[m].id = id /\ f.slots[m].label < f.count) => m <= j].label
        ELSE NoLabel]

\* mutant: the placeholder record carries the scale of a quantised zero vector
compressed_record_unit_scale(prec, slots, elems, label) ==
    IF SlotAt(slots, label) = "" \/ getDataByLabel_throws(elems, label)
    THEN [zero |-> TRUE, num |-> 1, den |-> 1, code |-> 0]
    ELSE IF prec = HNSW_PRECISION_FLOAT16
         THEN [zero |-> FALSE, num |-> 1, den |-> 1, code |-> float_to_half(hnsw_elem(elems, label).v)]
         ELSE LET qr == quantize_vector_int8(hnsw_elem(elems, label).v)
              IN  [zero |-> FALSE, num |-> qr.num, den |-> qr.den, code |-> qr.code]

\* the record save_compressed_vectors writes for one label: zeros for an
\* empty slot and for a label getDataByLabel does not find, else the
\* encoded vector
compressed_record(prec, slots, elems, label) ==
    IF SlotAt(slots, label) = "" \/ getDataByLabel_throws(elems, label)
    THEN [zero |-> TRUE, num |-> 0, den |-> 1, code |-> 0]
    ELSE IF prec = HNSW_PRECISION_FLOAT16
         THEN [zero |-> FALSE, num |-> 1, den |-> 1, code |-> float_to_half(hnsw_elem(elems, label).v)]
         ELSE LET qr == quantize_vector_int8(hnsw_elem(elems, label).v)
              IN  [zero |-> FALSE, num |-> qr.num, den |-> qr.den, code |-> qr.code]

\* save_compressed_vectors: header (vector count, dimension), one record per label
save_compressed_vectors(prec, slots, elems, dim) ==
    [exists |-> TRUE, num_vectors |-> Len(slots), dimensions |-> dim,
     recs |-> [i \in 1..Len(slots) |-> compressed_record(prec, slots, elems, i - 1)]]

\* the vector load_compressed_vectors decodes from one record
decoded_vector(prec, rec) ==
    IF prec = HNSW_PRECISION_FLOAT16 THEN half_to_float(rec.code)
    ELSE dequantize_vector_int8(rec.code, rec.num, rec.den)

\* load_compressed_vectors: every record whose label has a non-empty slot is
\* inserted; a throwing addPoint is ignored
RECURSIVE load_compressed_from(_, _, _, _, _, _)
load_compressed_from(label, f, prec, slots, max, elems) ==
    IF label >= f.num_vectors THEN elems
    ELSE LET vec == decoded_vector(prec, f.recs[label + 1])
             next == IF /\ label < Len(slots)
                        /\ SlotAt(slots, label) # ""
                        /\ ~addPoint_throws(elems, max, label)
                     THEN addPoint(elems, vec, label)
                     ELSE elems
         IN  load_compressed_from(label + 1, f, prec, slots, max, next)

load_compressed_vectors(f, prec, slots, max) ==
    load_compressed_from(0, f, prec, slots, max, {})

\* HierarchicalNSW(space, path): loadIndex called with max_elements 0 keeps
\* the saved capacity unless the saved index is empty
loadIndex_max(f) == IF 0 < cur_element_count(f.elems) THEN f.max ELSE 0


\* ------------------------------------------------------ VectorIndexManager
Init ==
    /\ h = "null"
    /\ alloc = {}
    /\ hnsw_max = 0
    /\ hnsw_elems = {}
    /\ id_to_label = EmptyMap
    /\ label_to_id = <<>>
    /\ dimension = 0
    /\ max_elements = 0
    /\ next_label = 0
    /\ modified = FALSE
    /\ precision = HNSW_PRECISION_FLOAT32
    /\ mapFile = NoMapFile
    /\ indexFile = NoIndexFile
    /\ vecFile = NoVecFile
    /\ last = NoLast
    /\ session = 0
    /\ maxAssigned = NoLabel
    /\ maxAssignedPrev = NoLabel
    /\ delState = [id \in ChunkIds |-> 0]
    /\ preClose = NoSnap
    /\ everFaulted = FALSE
    /\ created = NotCreated
    /\ mutex = 0
    /\ pc = [t \in Threads |-> "idle"]
    /\ call = [t \in Threads |-> NoCall]
    /\ calls = 0
    /\ codec = NoCodec

\* mutant: only the dimension is checked
create_rejects_dim_only(d, cap) == d <= 0

\* hnsw_create's argument check (the path is never null here)
create_rejects(d, cap) == d <= 0 \/ cap <= 0

\* hnsw_create on a path that holds no index yet
hnsw_create(d, cap, prec) ==
    /\ h = "null"
    /\ session = 0
    /\ IF create_rejects(d, cap)
       THEN /\ last' = [NoLast EXCEPT !.op = "create", !.ret = -1, !.badarg = TRUE, !.d = d, !.cap = cap]
            /\ UNCHANGED <<h, inst, session, created>>
       ELSE /\ h' = "open"
            /\ alloc' = {"index", "space", "hnsw"}
            /\ hnsw_max' = cap
            /\ hnsw_elems' = {}
            /\ id_to_label' = EmptyMap
            /\ label_to_id' = <<>>
            /\ dimension' = d
            /\ max_elements' = cap
            /\ next_label' = 0
            /\ modified' = FALSE
            /\ precision' = prec
            /\ last' = [NoLast EXCEPT !.op = "create", !.d = d, !.cap = cap]
            /\ session' = 1
            /\ created' = [dim |-> d, prec |-> prec]
    /\ UNCHANGED <<disk, maxAssigned, maxAssignedPrev, delState, preClose, everFaulted>>

\* what hnsw_open finds on disk for dimension d: "ok" or the reason it returns NULL
open_outcome(d) ==
    IF ~mapFile.exists THEN "no mapping"
    ELSE IF mapFile.prec = HNSW_PRECISION_FLOAT32
         THEN (IF indexFile.exists THEN "ok" ELSE "no index")
         ELSE IF ~vecFile.exists THEN "no vectors"
              ELSE IF vecFile.dimensions # d THEN "dimension"
              ELSE "ok"

\* mutant: the default is a floor
compressed_capacity_floor(count) == Max2(count, DefaultMaxElements)

\* size_t max_elements = label_to_id.size(); if (max_elements == 0) max_elements = 100000
compressed_capacity(count) == IF count = 0 THEN DefaultMaxElements ELSE count

hnsw_open(d) ==
    /\ h \in {"null", "freed"}
    /\ session < MaxSessions
    /\ IF open_outcome(d) # "ok"
       THEN /\ last' = [NoLast EXCEPT !.op = "open", !.ret = -1, !.d = d]
            /\ UNCHANGED <<h, inst, session>>
       ELSE LET slots == load_label_to_id(mapFile)
                cmax == compressed_capacity(Len(slots))
                full == mapFile.prec = HNSW_PRECISION_FLOAT32
            IN  /\ h' = "open"
                /\ alloc' = {"index", "space", "hnsw"}
                /\ precision' = load_precision(mapFile)
                /\ next_label' = load_next_label(mapFile)
                /\ label_to_id' = slots
                /\ id_to_label' = load_id_to_label(mapFile)
                /\ dimension' = d
                /\ modified' = FALSE
                /\ hnsw_max' = IF full THEN loadIndex_max(indexFile) ELSE cmax
                /\ max_elements' = IF full THEN loadIndex_max(indexFile) ELSE cmax
                /\ hnsw_elems' = IF full THEN indexFile.elems
                                 ELSE load_compressed_vectors(vecFile, mapFile.prec, slots, cmax)
                /\ last' = [NoLast EXCEPT !.op = "open", !.d = d]
                /\ session' = session + 1
    /\ UNCHANGED <<disk, maxAssigned, maxAssignedPrev, delState, preClose, everFaulted, created>>

\* mutant: the counter is not advanced
label_after_stuck(next) == next

\* label = index->next_label++: the counter after the statement
label_after(next) == next + 1

\* mutant: the capacity is not doubled
grown_capacity_same(max) == max

\* resizeIndex(max_elements * 2); max_elements *= 2
grown_capacity(max) == max * 2

\* hnsw_add with non-null arguments; fault names the call of the ANN
\* primitive that runs out of memory in this call, if any
hnsw_add(id, x, d, fault) ==
    /\ h = "open"
    /\ next_label < MaxLabel
    /\ LET old == id_to_label[id]
           update == old # NoLabel
           label == next_label
           grow == label >= max_elements
           elems1 == IF update THEN markDelete(hnsw_elems, old) ELSE hnsw_elems
           max1 == IF grow THEN grown_capacity(max_elements) ELSE max_elements
           hmax1 == IF grow THEN grown_capacity(max_elements) ELSE hnsw_max
           arg == [NoLast EXCEPT !.op = "add", !.id = id, !.old = old, !.d = d]
       IN  IF d # dimension
           THEN /\ last' = [arg EXCEPT !.ret = -1, !.badarg = TRUE]
                /\ UNCHANGED <<inst, ghost>>
           ELSE IF update /\ markDelete_throws(hnsw_elems, old)
           THEN /\ last' = [arg EXCEPT !.ret = -1, !.threw = "markDelete"]
                /\ delState' = [delState EXCEPT ![id] = 0]
                /\ UNCHANGED <<inst, created, session, maxAssigned, maxAssignedPrev, preClose, everFaulted>>
           ELSE IF grow /\ (fault = "resize" \/ resizeIndex_throws(elems1, grown_capacity(max_elements)))
           THEN /\ last' = [arg EXCEPT !.ret = -1, !.label = label,
                                       !.threw = IF fault = "resize" THEN "memory" ELSE "resizeIndex"]
                /\ hnsw_elems' = elems1
                /\ next_label' = label_after(next_label)
                /\ everFaulted' = TRUE
                /\ delState' = [delState EXCEPT ![id] = 0]
                /\ UNCHANGED <<alloc, hnsw_max, id_to_label, label_to_id, dimension, max_elements, modified, precision>>
                /\ UNCHANGED <<created, session, maxAssigned, maxAssignedPrev, preClose>>
           ELSE IF fault = "insert" \/ addPoint_throws(elems1, hmax1, label)
           THEN /\ last' = [arg EXCEPT !.ret = -1, !.label = label,
                                       !.threw = IF fault = "insert" THEN "memory" ELSE "addPoint"]
                /\ hnsw_elems' = elems1
                /\ hnsw_max' = hmax1
                /\ max_elements' = max1
                /\ next_label' = label_after(next_label)
                /\ everFaulted' = TRUE
                /\ delState' = [delState EXCEPT ![id] = 0]
                /\ UNCHANGED <<alloc, id_to_label, label_to_id, dimension, modified, precision>>
                /\ UNCHANGED <<created, session, maxAssigned, maxAssignedPrev, preClose>>
           ELSE /\ last' = [arg EXCEPT !.ret = 0, !.label = label]
                /\ hnsw_elems' = addPoint(elems1, normalize_vector(x), label)
                /\ hnsw_max' = hmax1
                /\ max_elements' = max1
                /\ next_label' = label_after(next_label)
                /\ label_to_id' = [(IF label >= Len(label_to_id)
                                    THEN ResizeSlots(label_to_id, label + 1)
                                    ELSE label_to_id) EXCEPT ![label + 1] = id]
                /\ id_to_label' = [id_to_label EXCEPT ![id] = label]
                /\ modified' = TRUE
                /\ maxAssigned' = Max2(maxAssigned, label)
                /\ delState' = [delState EXCEPT ![id] = 0]
                /\ UNCHANGED <<alloc, dimension, precision>>
                /\ UNCHANGED <<created, session, maxAssignedPrev, preClose, everFaulted>>
    /\ UNCHANGED <<h, disk>>

\* mutant: the not-found branch sets the dirty flag
hnsw_delete_dirty(id) ==
    /\ h = "open"
    /\ LET label == id_to_label[id]
           arg == [NoLast EXCEPT !.op = "delete", !.id = id, !.old = label]
       IN  IF label = NoLabel
           THEN /\ last' = [arg EXCEPT !.ret = 0]
                /\ modified' = TRUE
                /\ UNCHANGED <<alloc, hnsw_max, hnsw_elems, id_to_label, label_to_id, dimension, max_elements, next_label, precision>>
                /\ UNCHANGED delState
           ELSE IF markDelete_throws(hnsw_elems, label)
           THEN /\ last' = [arg EXCEPT !.ret = -1, !.threw = "markDelete"]
                /\ delState' = [delState EXCEPT ![id] = 0]
                /\ UNCHANGED inst
           ELSE /\ last' = [arg EXCEPT !.ret = 0]
                /\ hnsw_elems' = markDelete(hnsw_elems, label)
                /\ id_to_label' = [id_to_label EXCEPT ![id] = NoLabel]
                /\ label_to_id' = IF label < Len(label_to_id)
                                  THEN [label_to_id EXCEPT ![label + 1] = ""]
                                  ELSE label_to_id
                /\ modified' = TRUE
                /\ delState' = [delState EXCEPT ![id] = 1]
                /\ UNCHANGED <<alloc, hnsw_max, dimension, max_elements, next_label, precision>>
    /\ UNCHANGED <<h, disk, created, session, maxAssigned, maxAssignedPrev, preClose, everFaulted>>

hnsw_delete(id) ==
    /\ h = "open"
    /\ LET label == id_to_label[id]
           arg == [NoLast EXCEPT !.op = "delete", !.id = id, !.old = label]
       IN  IF label = NoLabel
           THEN /\ last' = [arg EXCEPT !.ret = 0]
                /\ UNCHANGED <<inst, delState>>
           ELSE IF markDelete_throws(hnsw_elems, label)
           THEN /\ last' = [arg EXCEPT !.ret = -1, !.threw = "markDelete"]
                /\ delState' = [delState EXCEPT ![id] = 0]
                /\ UNCHANGED inst
           ELSE /\ last' = [arg EXCEPT !.ret = 0]
                /\ hnsw_elems' = markDelete(hnsw_elems, label)
                /\ id_to_label' = [id_to_label EXCEPT ![id] = NoLabel]
                /\ label_to_id' = IF label < Len(label_to_id)
                                  THEN [label_to_id EXCEPT ![label + 1] = ""]
                                  ELSE label_to_id
                /\ modified' = TRUE
                /\ delState' = [delState EXCEPT ![id] = 1]
                /\ UNCHANGED <<alloc, hnsw_max, dimension, max_elements, next_label, precision>>
    /\ UNCHANGED <<h, disk, created, session, maxAssigned, maxAssignedPrev, preClose, everFaulted>>

\* the entries hnsw_search returns for the set S the primitive found
search_results(S, q) ==
    LET valid == {e \in S : e.label < Len(label_to_id) /\ SlotAt(label_to_id, e.label) # ""}
        ordered == BestFirst(valid, q)
    IN  [i \in 1..Len(ordered) |->
            [chunk_id |-> SlotAt(label_to_id, ordered[i].label),
             label |-> ordered[i].label,
             similarity |-> 1 - Distance(q, ordered[i].v)]]

hnsw_search(x, d, k) ==
    /\ h = "open"
    /\ LET arg == [NoLast EXCEPT !.op = "search", !.k = k, !.d = d]
       IN  IF k <= 0 \/ d # dimension
           THEN last' = [arg EXCEPT !.ret = -1, !.badarg = TRUE]
           ELSE \E S \in searchKnn(hnsw_elems, normalize_vector(x), k) :
                   LET res == search_results(S, normalize_vector(x))
                   IN  last' = [arg EXCEPT !.ret = Len(res), !.res = res]
    /\ UNCHANGED <<h, inst, disk, ghost>>

\* mutant: close never saves
close_saves_never(mod) == FALSE

\* mutant: close saves whether or not the instance was modified
close_saves_always(mod) == TRUE

\* if (index->modified): whether hnsw_close saves
close_saves(mod) == mod

\* hnsw_close; sf names the way the save goes wrong, if it does:
\*   "mapping_fails"   save_id_mappings cannot open its file and returns false
\*                     (the return value is ignored and the save goes on)
\*   "mapping_throws"  save_id_mappings throws before its file is opened
\*   "artifact_fails"  the graph file or the compressed file cannot be opened;
\*                     nothing is written and nothing is thrown
\*   "artifact_throws" saveIndex or save_compressed_vectors throws before its
\*                     file is opened
\* A throw is caught by the catch (...) of hnsw_close, which deletes the
\* instance only.
hnsw_close(sf) ==
    /\ h = "open"
    /\ ~modified => sf = "none"
    /\ LET threw == sf \in {"mapping_throws", "artifact_throws"}
           mapWritten == close_saves(modified) /\ sf \notin {"mapping_fails", "mapping_throws"}
           artWritten == close_saves(modified) /\ sf \notin {"mapping_throws", "artifact_fails", "artifact_throws"}
       IN  /\ mapFile' = IF mapWritten THEN save_id_mappings(precision, label_to_id, next_label)
                         ELSE mapFile
           /\ indexFile' = IF artWritten /\ precision = HNSW_PRECISION_FLOAT32
                           THEN [exists |-> TRUE, max |-> hnsw_max, elems |-> hnsw_elems]
                           ELSE indexFile
           /\ vecFile' = IF artWritten /\ precision # HNSW_PRECISION_FLOAT32
                         THEN save_compressed_vectors(precision, label_to_id, hnsw_elems, dimension)
                         ELSE vecFile
           /\ preClose' = IF modified /\ sf = "none"
                          THEN [taken |-> TRUE, id_to_label |-> id_to_label,
                                label_to_id |-> label_to_id, next_label |-> next_label]
                          ELSE NoSnap
           /\ alloc' = IF threw THEN {"space", "hnsw"} ELSE {}
           /\ last' = [NoLast EXCEPT !.op = "close", !.threw = IF threw THEN "save" ELSE "none"]
           /\ delState' = [id \in ChunkIds |->
                              IF delState[id] = 1 THEN (IF sf = "none" THEN 2 ELSE 0)
                              ELSE delState[id]]
    /\ h' = "freed"
    /\ hnsw_max' = 0
    /\ hnsw_elems' = {}
    /\ id_to_label' = EmptyMap
    /\ label_to_id' = <<>>
    /\ dimension' = 0
    /\ max_elements' = 0
    /\ next_label' = 0
    /\ modified' = FALSE
    /\ precision' = HNSW_PRECISION_FLOAT32
    /\ maxAssignedPrev' = Max2(maxAssignedPrev, maxAssigned)
    /\ maxAssigned' = NoLabel
    /\ UNCHANGED <<created, session, everFaulted>>

\* a call on the handle after hnsw_close has deleted the instance: the
\* handle is not null, so the call reads freed memory and any status may
\* come back
use_after_close(op) ==
    /\ h = "freed"
    /\ \E r \in {-1, 0} : last' = [NoLast EXCEPT !.op = op, !.ret = r, !.uaf = TRUE]
    /\ UNCHANGED <<h, inst, disk, ghost>>

Create == \E d \in CreateDims, cap \in Caps, prec \in Precisions : hnsw_create(d, cap, prec) /\ UNCHANGED <<thr, codec>>
Open == \E d \in Dims : hnsw_open(d) /\ UNCHANGED <<thr, codec>>
Add == \E id \in ChunkIds, x \in RawComps, d \in Dims, fault \in Faults : hnsw_add(id, x, d, fault) /\ UNCHANGED <<thr, codec>>
Delete == \E id \in ChunkIds : hnsw_delete(id) /\ UNCHANGED <<thr, codec>>
Search == \E x \in QueryComps, d \in Dims, k \in 0..MaxK : hnsw_search(x, d, k) /\ UNCHANGED <<thr, codec>>
Close == hnsw_close("none") /\ UNCHANGED <<thr, codec>>
AfterClose == \E op \in {"add", "delete", "search", "close"} : use_after_close(op) /\ UNCHANGED <<thr, codec>>

Next == Create \/ Open \/ Add \/ Delete \/ Search \/ Close \/ AfterClose

Spec == Init /\ [][Next]_vars

\* The registry and the capacity alone: create, open, add, delete and close
\* with one vector value (the registry and the capacity do not depend on
\* the vector) and without the calls that leave the instance as it is.
AddOne == \E id \in ChunkIds, d \in Dims, fault \in Faults : hnsw_add(id, 1, d, fault) /\ UNCHANGED <<thr, codec>>

NextR == Create \/ Open \/ AddOne \/ Delete \/ Close

SpecR == Init /\ [][NextR]_vars

\* The same with saves that go wrong.  Spec, SpecR, SpecS and SpecP take
\* every write of hnsw_close to succeed.
CloseAny == \E sf \in SaveFaults : hnsw_close(sf) /\ UNCHANGED <<thr, codec>>

NextF == Create \/ Open \/ AddOne \/ Delete \/ CloseAny

SpecF == Init /\ [][NextF]_vars

\* The int8 codec alone: a vector of two components is quantised and
\* dequantised again.
CodecInputs == {<<x, y>> : x \in (-MaxComp)..MaxComp, y \in (-MaxComp)..MaxComp}

InitQ ==
    /\ h = "null"
    /\ alloc = {}
    /\ hnsw_max = 0
    /\ hnsw_elems = {}
    /\ id_to_label = EmptyMap
    /\ label_to_id = <<>>
    /\ dimension = 0
    /\ max_elements = 0
    /\ next_label = 0
    /\ modified = FALSE
    /\ precision = HNSW_PRECISION_INT8
    /\ mapFile = NoMapFile
    /\ indexFile = NoIndexFile
    /\ vecFile = NoVecFile
    /\ last = NoLast
    /\ session = 0
    /\ maxAssigned = NoLabel
    /\ maxAssignedPrev = NoLabel
    /\ delState = [id \in ChunkIds |-> 0]
    /\ preClose = NoSnap
    /\ everFaulted = FALSE
    /\ created = NotCreated
    /\ mutex = 0
    /\ pc = [t \in Threads |-> "idle"]
    /\ call = [t \in Threads |-> NoCall]
    /\ calls = 0
    /\ \E in \in CodecInputs : codec = [NoCodec EXCEPT !.stage = "input", !.in = in]

Quantize ==
    /\ codec.stage = "input"
    /\ LET qr == quantize_vector_int8_dim(codec.in)
       IN  codec' = [codec EXCEPT !.stage = "quantized", !.scale = qr.scale, !.codes = qr.codes]
    /\ UNCHANGED <<h, inst, disk, last, ghost, thr>>

\* dequantize_vector_int8: out[i] = in[i] * scale, kept as numerators over scale.den
Dequantize ==
    /\ codec.stage = "quantized"
    /\ codec' = [codec EXCEPT !.stage = "restored",
                              !.out = [i \in 1..Len(codec.codes) |-> codec.codes[i] * codec.scale.num]]
    /\ UNCHANGED <<h, inst, disk, last, ghost, thr>>

NextQ == Quantize \/ Dequantize

SpecQ == InitQ /\ [][NextQ]_vars

\* Searching within one session: create, add without faults of the
\* primitive, delete and search.
AddNoFault == \E id \in ChunkIds, x \in RawComps, d \in Dims : hnsw_add(id, x, d, "none") /\ UNCHANGED <<thr, codec>>

NextS == Create \/ AddNoFault \/ Delete \/ Search

SpecS == Init /\ [][NextS]_vars

\* The registry across sessions with searches of one query vector.
SearchOne == \E d \in Dims, k \in 0..1 : hnsw_search(1, d, k) /\ UNCHANGED <<thr, codec>>

NextP == Create \/ Open \/ AddOne \/ Delete \/ SearchOne \/ Close

SpecP == Init /\ [][NextP]_vars


\* ------------------------------------------------- concurrent callers
\* Several threads call add, delete, search and close on one instance.
\* Each handler checks its arguments, constructs
\* std::lock_guard<std::mutex> lock(index->mutex), runs its body and
\* releases the mutex when the guard goes out of scope.  hnsw_close deletes
\* the instance, and with it the mutex, inside the guarded scope: from then
\* on the mutex is a destroyed object in freed memory, locking it is
\* undefined, and a waiting thread may get through whoever held it.
InitC ==
    /\ h = "open"
    /\ alloc = {"index", "space", "hnsw"}
    /\ hnsw_max = 2
    /\ hnsw_elems = {}
    /\ id_to_label = EmptyMap
    /\ label_to_id = <<>>
    /\ dimension = 2
    /\ max_elements = 2
    /\ next_label = 0
    /\ modified = FALSE
    /\ precision \in Precisions
    /\ mapFile = NoMapFile
    /\ indexFile = NoIndexFile
    /\ vecFile = NoVecFile
    /\ last = [NoLast EXCEPT !.op = "create", !.d = 2, !.cap = 2]
    /\ session = 1
    /\ maxAssigned = NoLabel
    /\ maxAssignedPrev = NoLabel
    /\ delState = [id \in ChunkIds |-> 0]
    /\ preClose = NoSnap
    /\ everFaulted = FALSE
    /\ created = [dim |-> dimension, prec |-> precision]
    /\ mutex = 0
    /\ pc = [t \in Threads |-> "idle"]
    /\ call = [t \in Threads |-> NoCall]
    /\ calls = 0
    /\ codec = NoCodec

\* the handler is entered: null checks, and for add and search the
\* dimension check, which reads index->dimension before the lock is taken;
\* on a freed instance the value read is arbitrary
enter(t, c) ==
    /\ pc[t] = "idle"
    /\ calls < MaxCalls
    /\ calls' = calls + 1
    /\ \E garbage \in BOOLEAN :
          IF /\ c.op \in {"add", "search"}
             /\ IF h = "open" THEN c.d # dimension ELSE garbage
          THEN /\ last' = [NoLast EXCEPT !.op = c.op, !.id = c.id, !.ret = -1,
                                         !.badarg = TRUE, !.uaf = (h = "freed")]
               /\ UNCHANGED <<pc, call>>
          ELSE /\ pc' = [pc EXCEPT ![t] = "wait"]
               /\ call' = [call EXCEPT ![t] = c]
               /\ UNCHANGED last
    /\ UNCHANGED <<h, inst, disk, ghost, mutex, codec>>

\* lock_guard's constructor: mutex.lock()
lock(t) ==
    /\ pc[t] = "wait"
    /\ mutex = 0 \/ h = "freed"
    /\ mutex' = t
    /\ pc' = [pc EXCEPT ![t] = "cs"]
    /\ UNCHANGED <<h, inst, disk, last, ghost, call, calls, codec>>

\* the guarded body of the handler
body(t) ==
    /\ pc[t] = "cs"
    /\ LET c == call[t]
       IN  IF h = "freed" THEN use_after_close(c.op)
           ELSE CASE c.op = "add" -> hnsw_add(c.id, c.x, c.d, c.fault)
                  [] c.op = "delete" -> hnsw_delete(c.id)
                  [] c.op = "search" -> hnsw_search(c.x, c.d, c.k)
                  [] OTHER -> hnsw_close("none")
    /\ pc' = [pc EXCEPT ![t] = "unlock"]
    /\ UNCHANGED <<mutex, call, calls, codec>>

\* lock_guard's destructor: mutex.unlock()
unlock(t) ==
    /\ pc[t] = "unlock"
    /\ mutex' = IF mutex = t THEN 0 ELSE mutex
    /\ pc' = [pc EXCEPT ![t] = "idle"]
    /\ call' = [call EXCEPT ![t] = NoCall]
    /\ UNCHANGED <<h, inst, disk, last, ghost, calls, codec>>

Calls ==
    {[NoCall EXCEPT !.op = "add", !.id = id, !.x = 1, !.d = d] : id \in {"a", "b"}, d \in Dims}
    \cup {[NoCall EXCEPT !.op = "delete", !.id = "a"]}
    \cup {[NoCall EXCEPT !.op = "search", !.x = 1, !.d = 2, !.k = MaxK]}
    \cup {[NoCall EXCEPT !.op = "close"]}

Enter == \E t \in Threads, c \in Calls : enter(t, c)
Lock == \E t \in Threads : lock(t)
Body == \E t \in Threads : body(t)
Unlock == \E t \in Threads : unlock(t)

NextC == Enter \/ Lock \/ Body \/ Unlock

SpecC == InitC /\ [][NextC]_vars


\* ====================================================================
\* Properties
\* ====================================================================
LiveSlots(id) == {L \in 0..(Len(label_to_id) - 1) : SlotAt(label_to_id, L) = id}
InSection(t) == pc[t] \in {"cs", "unlock"}

\* C1 (update semantics): when add(id, v2) succeeds for an identifier that had
\* a live label, exactly one forward slot holds id, the reverse mapping sends
\* id to the label of v2, and the slot of the old label is a tombstone.
C1_UpdateSemantics ==
    (h = "open" /\ last.op = "add" /\ last.ret = 0 /\ last.id # "" /\ last.old # NoLabel)
    => /\ LiveSlots(last.id) = {last.label}
       /\ id_to_label[last.id] = last.label
       /\ SlotAt(label_to_id, last.old) = ""

\* C2 (deleted-entry exclusion): once the last call that changed an
\* identifier's entry was a delete and the index has been closed and opened
\* again, no search returns that identifier.
C2_DeletedEntryExclusion ==
    (h = "open" /\ last.op = "search")
    => \A i \in 1..Len(last.res) : delState[last.res[i].chunk_id] # 2

\* C3 (label monotonicity within a session): the label a successful add
\* assigns is greater than every label a successful add of the session was
\* given before, whatever became of those labels since.
C3_LabelMonotonic ==
    [][(h = "open" /\ last'.op = "add" /\ last'.ret = 0)
        => (last'.label > maxAssigned /\ next_label' > last'.label)]_vars

C3_Witness ==
    /\ h = "open" /\ last.op = "add" /\ last.ret = 0 /\ last.label >= 1
    /\ \E id \in ChunkIds \ {""} : delState[id] = 1

\* C4 (label monotonicity across restarts): in a reopened index the next
\* label, and every label a successful add assigns, is greater than every
\* label assigned in earlier sessions on the path.
C4_LabelMonotonicAcrossRestart ==
    (h = "open" /\ session >= 2)
    => /\ next_label > maxAssignedPrev
       /\ (last.op = "add" /\ last.ret = 0) => last.label > maxAssignedPrev

C4_Witness ==
    /\ h = "open" /\ session >= 2 /\ maxAssignedPrev >= 1
    /\ last.op = "add" /\ last.ret = 0
    /\ precision = HNSW_PRECISION_INT8

\* C5 (persistence round-trip of the registry): after a close that saved and
\* an open of the same path, every identifier has the label it had when
\* close began, and the slot count and next label are the same.
C5_RegistryRoundTrip ==
    (h = "open" /\ last.op = "open" /\ last.ret = 0 /\ preClose.taken)
    => /\ \A id \in ChunkIds \ {""} : id_to_label[id] = preClose.id_to_label[id]
       /\ Len(label_to_id) = Len(preClose.label_to_id)
       /\ next_label = preClose.next_label

\* C6 (delete idempotence): delete of an identifier the reverse mapping does
\* not hold returns 0 and changes neither the instance nor the files.
C6_DeleteIdempotent ==
    [][(h = "open" /\ last'.op = "delete" /\ id_to_label[last'.id] = NoLabel)
        => (last'.ret = 0 /\ UNCHANGED <<h, inst, disk>>)]_vars

C6_Witness ==
    /\ h = "open" /\ last.op = "delete" /\ last.ret = 0 /\ last.old = NoLabel
    /\ delState[last.id] = 1
    /\ modified

\* C7 (search returns only live identifiers): every entry of a search result
\* carries a non-empty identifier that the reverse mapping holds, and there
\* are at most k entries.
C7_SearchOnlyLive ==
    (h = "open" /\ last.op = "search" /\ last.ret >= 0)
    => /\ Len(last.res) <= last.k
       /\ last.ret = Len(last.res)
       /\ \A i \in 1..Len(last.res) :
             /\ last.res[i].chunk_id # ""
             /\ id_to_label[last.res[i].chunk_id] # NoLabel

\* C8 (capacity growth): the ANN primitive never refuses an insertion or a
\* resize for lack of capacity, so add fails only on a rejected argument or a
\* fault of the primitive; the primitive never holds more elements than the
\* capacity; while no fault has occurred the label inserted is below the
\* capacity; an add that finds its label at or above the capacity doubles
\* it, and every other identifier keeps its label and its live element.
C8_CapacityInv ==
    /\ (h = "open") => /\ cur_element_count(hnsw_elems) <= max_elements
                       /\ hnsw_max = max_elements
    /\ (h = "open" /\ last.op = "add") => last.threw \notin {"addPoint", "resizeIndex"}
    /\ (h = "open" /\ last.op = "add" /\ last.ret = -1) => (last.badarg \/ last.threw # "none")
    /\ (h = "open" /\ last.op = "add" /\ last.ret = 0 /\ ~everFaulted)
          => last.label < max_elements

C8_GrowthStep ==
    (h = "open" /\ last'.op = "add" /\ last'.ret = 0)
    => /\ (next_label >= max_elements) => (max_elements' = 2 * max_elements)
       /\ (next_label < max_elements) => (max_elements' = max_elements)
       /\ \A id \in ChunkIds \ {last'.id} :
             /\ id_to_label'[id] = id_to_label[id]
             /\ (id_to_label[id] # NoLabel /\ id_to_label[id] \in hnsw_labels(hnsw_elems))
                   => hnsw_elem(hnsw_elems', id_to_label[id]) = hnsw_elem(hnsw_elems, id_to_label[id])

C8_CapacityGrowth == [](C8_CapacityInv) /\ [][C8_GrowthStep]_vars

C8_Witness ==
    /\ h = "open" /\ session >= 2 /\ last.op = "add" /\ last.ret = 0
    /\ max_elements = 4 /\ ~everFaulted
    /\ \E id \in ChunkIds \ {last.id, ""} :
          /\ id_to_label[id] # NoLabel
          /\ id_to_label[id] < last.label
          /\ ~hnsw_elem(hnsw_elems, id_to_label[id]).del

\* C9 (mutual exclusion per instance): at most one of the concurrent calls
\* is between taking and releasing the instance's mutex.
C9_MutualExclusion ==
    \A t1 \in Threads, t2 \in Threads : (t1 # t2) => ~(InSection(t1) /\ InSection(t2))

\* C10 (closed is terminal): a call on an instance that close has released
\* returns the failure status and does not touch the released instance.
C10_ClosedIsTerminal ==
    (h = "freed")
    => /\ ~last.uaf
       /\ last.op \in {"add", "delete", "search"} => last.ret = -1

\* C11 (add failure leaves no partial mutation): an add that returns -1
\* because a call of the ANN primitive threw leaves the forward slots, the
\* reverse mapping, the next-label counter, the capacity and the dirty flag
\* as they were.
C11_AddFailureAtomic ==
    [][(h = "open" /\ last'.op = "add" /\ last'.ret = -1 /\ last'.threw # "none")
        => UNCHANGED <<label_to_id, id_to_label, next_label, max_elements, modified>>]_vars

\* C12 (invalid arguments have no effect): create with a dimension or a
\* capacity that is not positive returns the failure sentinel and creates
\* nothing; add with a dimension other than the index's, and search with
\* such a dimension or with k <= 0, return -1 and leave the instance and
\* the files as they were.
C12_InvalidArguments ==
    [][/\ (h = "null" /\ last'.op = "create" /\ (last'.d <= 0 \/ last'.cap <= 0))
            => (last'.ret = -1 /\ h' = "null" /\ UNCHANGED <<inst, disk>>)
       /\ (h = "open" /\ last'.op = "add" /\ last'.d # dimension)
            => (last'.ret = -1 /\ UNCHANGED <<h, inst, disk>>)
       /\ (h = "open" /\ last'.op = "search" /\ (last'.d # dimension \/ last'.k <= 0))
            => (last'.ret = -1 /\ UNCHANGED <<h, inst, disk>>)]_vars

C12_Witness ==
    /\ h = "open" /\ modified /\ cur_element_count(hnsw_elems) >= 2
    /\ last.op = "search" /\ last.ret = -1 /\ last.k >= 1 /\ last.d # dimension

\* C13 (empty identifier is rejected): add with the empty string as
\* identifier and a vector of the index's dimension returns -1, allocates no
\* label, appends no slot, adds no entry to the reverse mapping and leaves
\* the dirty flag as it was.
C13_EmptyIdRejected ==
    [][(h = "open" /\ last'.op = "add" /\ last'.id = "" /\ last'.d = dimension)
        => (last'.ret = -1 /\ UNCHANGED <<next_label, label_to_id, id_to_label, modified>>)]_vars

\* C14 (close releases everything even when saving fails): after close
\* has returned, whatever became of the save, none of the instance, the
\* distance space and the ANN primitive is still allocated.
C14_CloseReleasesAll ==
    (h = "freed" /\ last.op = "close" /\ ~last.uaf) => alloc = {}

\* C15 (dimension mismatch on reopen is a hard error): open with a
\* dimension other than the one the index on the path was created with
\* returns the failure sentinel and yields no handle.
C15_ReopenDimensionMismatch ==
    (last.op = "open" /\ created.dim # 0 /\ last.d # created.dim)
    => (last.ret = -1 /\ h # "open")

\* C16 (precision is fixed per storage path): in every session on the path
\* the instance's precision is the one the index was created with; the
\* mapping file records that precision; no add, delete, search or close
\* changes the precision of the instance it acts on; and the path holds a
\* native graph file only for FLOAT32 and a compressed file only for
\* FLOAT16 and INT8.
C16_PrecisionInv ==
    /\ (h = "open") => precision = created.prec
    /\ mapFile.exists => mapFile.prec = created.prec
    /\ indexFile.exists => created.prec = HNSW_PRECISION_FLOAT32
    /\ vecFile.exists => created.prec # HNSW_PRECISION_FLOAT32

C16_PrecisionStep ==
    (h = "open" /\ h' = "open") => precision' = precision

C16_PrecisionFixed == [](C16_PrecisionInv) /\ [][C16_PrecisionStep]_vars

C16_Witness ==
    /\ h = "open" /\ session >= 2 /\ modified
    /\ precision = HNSW_PRECISION_INT8 /\ vecFile.exists
    /\ last.op = "search" /\ last.ret >= 1

\* C17 (search results are ordered by descending similarity): in a result
\* list consecutive entries have non-increasing similarity, entries of equal
\* similarity stand in the order of the primitive's queue (ascending
\* label), and each similarity is 1 minus the distance from the query to the
\* vector the primitive holds under the entry's label.
C17_SearchOrdered ==
    (h = "open" /\ last.op = "search" /\ last.ret >= 1)
    => /\ \A i \in 1..(Len(last.res) - 1) :
             \/ last.res[i].similarity > last.res[i + 1].similarity
             \/ /\ last.res[i].similarity = last.res[i + 1].similarity
                /\ last.res[i].label < last.res[i + 1].label
       /\ \E x \in QueryComps :
             \A i \in 1..Len(last.res) :
                /\ last.res[i].label \in hnsw_labels(hnsw_elems)
                /\ last.res[i].similarity =
                      1 - Distance(normalize_vector(x), hnsw_elem(hnsw_elems, last.res[i].label).v)

C17_Witness ==
    /\ h = "open" /\ last.op = "search" /\ Len(last.res) = 2
    /\ last.res[1].similarity > last.res[2].similarity
    /\ last.res[1].label > last.res[2].label
    /\ \E L \in 0..(Len(label_to_id) - 1) : SlotAt(label_to_id, L) = ""

\* C18 (similarity range): every similarity a search reports lies in [0, 1].
C18_SimilarityRange ==
    (h = "open" /\ last.op = "search")
    => \A i \in 1..Len(last.res) : last.res[i].similarity \in 0..1

\* C19 (quantization scale), as claimed: the scale quantize_vector_int8
\* returns is 0 exactly for the all-zero vector, and every code lies in
\* [-127, 127].
C19_ScaleZeroIffZeroVector ==
    (codec.stage \in {"quantized", "restored"})
    => /\ (codec.scale.num = 0) <=> (\A i \in 1..Len(codec.in) : codec.in[i] = 0)
       /\ \A i \in 1..Len(codec.codes) : codec.codes[i] \in (-127)..127

\* C19 amended: the scale is 1 for the all-zero vector (not 0) and
\* max|v_i| / 127 for every other vector; one code is produced per
\* component and every code lies in [-127, 127].
C19_ScaleOfZeroVectorIsOne ==
    (codec.stage \in {"quantized", "restored"})
    => /\ codec.scale.num > 0 /\ codec.scale.den > 0
       /\ (\A i \in 1..Len(codec.in) : codec.in[i] = 0)
             => (codec.scale.num = codec.scale.den)
       /\ (\E i \in 1..Len(codec.in) : codec.in[i] # 0)
             => /\ codec.scale.den = 127
                /\ \A i \in 1..Len(codec.in) : AbsInt(codec.in[i]) <= codec.scale.num
                /\ \E i \in 1..Len(codec.in) : AbsInt(codec.in[i]) = codec.scale.num
       /\ Len(codec.codes) = Len(codec.in)
       /\ \A i \in 1..Len(codec.codes) : codec.codes[i] \in (-127)..127

C19_Witness ==
    /\ codec.stage = "quantized"
    /\ \A i \in 1..Len(codec.in) : codec.in[i] = 0
    /\ codec.scale.num = 1 /\ codec.scale.den = 1

\* C20 (registry consistency): in every state of an open index a slot L
\* holds the non-empty identifier s if and only if the reverse mapping
\* sends s to L; so no identifier is in two slots and a deleted or
\* superseded identifier is in none.
C20_RegistryConsistent ==
    (h = "open")
    => \A id \in ChunkIds \ {""} :
          LiveSlots(id) = IF id_to_label[id] = NoLabel THEN {} ELSE {id_to_label[id]}

\* C21 (tombstone-consistent rebuild): right after open of a FLOAT16 or INT8
\* index whose last close saved, and with no fault of the primitive so far,
\* the labels the fresh primitive holds are exactly the labels the reverse
\* mapping held when close began, and none of them was inserted from a
\* zero-filled placeholder record.
C21_TombstoneConsistentRebuild ==
    (/\ h = "open" /\ last.op = "open" /\ last.ret = 0
     /\ precision # HNSW_PRECISION_FLOAT32 /\ preClose.taken /\ ~everFaulted)
    => /\ hnsw_labels(hnsw_elems)
            = {preClose.id_to_label[id] : id \in ChunkIds \ {""}} \ {NoLabel}
       /\ \A L \in hnsw_labels(hnsw_elems) : ~vecFile.recs[L + 1].zero

\* C22 (dirty flag): the dirty flag is false when create or open hands out
\* the instance, and after every call on an open instance it is true if and
\* only if it was true before or the call changed the forward slots, the
\* reverse mapping, the next-label counter or the contents of the primitive.
C22_DirtyStep ==
    /\ (h # "open" /\ h' = "open") => ~modified'
    /\ (h = "open" /\ h' = "open")
          => (modified' <=>
                 \/ modified
                 \/ <<label_to_id, id_to_label, next_label, hnsw_elems>>'
                       # <<label_to_id, id_to_label, next_label, hnsw_elems>>)

C22_DirtyFlag == [][C22_DirtyStep]_vars

\* C23 (what close writes), with the writes succeeding: a close of a
\* modified instance leaves a mapping file carrying the instance's
\* precision, slot count, next label and slots, and for FLOAT32 a graph
\* file with the primitive's contents and the compressed file untouched,
\* for FLOAT16 and INT8 a compressed file for the instance's slots and the
\* graph file untouched; a close of an unmodified instance leaves all three
\* files as they were.
C23_CloseStep ==
    (h = "open" /\ h' = "freed")
    => IF modified
       THEN /\ mapFile'.exists
            /\ mapFile'.prec = precision
            /\ mapFile'.count = Len(label_to_id)
            /\ mapFile'.next_label = next_label
            /\ \A i \in 1..Len(label_to_id) :
                  mapFile'.slots[i] = [label |-> i - 1, id |-> label_to_id[i]]
            /\ (precision = HNSW_PRECISION_FLOAT32)
                  => /\ indexFile'.exists /\ indexFile'.elems = hnsw_elems
                     /\ vecFile' = vecFile
            /\ (precision # HNSW_PRECISION_FLOAT32)
                  => /\ vecFile'.exists /\ vecFile'.num_vectors = Len(label_to_id)
                     /\ indexFile' = indexFile
       ELSE UNCHANGED disk

C23_WhatCloseWrites == [][C23_CloseStep]_vars

C23_Witness ==
    /\ h = "freed" /\ last.op = "close" /\ preClose.taken /\ session >= 2
    /\ mapFile.exists /\ vecFile.exists /\ ~indexFile.exists
    /\ mapFile.count >= 2

\* C24 (fixed-stride compressed file): a compressed file on the path has a
\* vector count equal to the slot count of the mapping file, the dimension
\* the index was created with, one record per label in label order, and
\* for every empty slot a record of zeros (with scale 0 for INT8).
C24_FixedStride ==
    vecFile.exists
    => /\ mapFile.exists
       /\ vecFile.num_vectors = mapFile.count
       /\ Len(vecFile.recs) = vecFile.num_vectors
       /\ vecFile.dimensions = created.dim
       /\ \A i \in 1..Len(vecFile.recs) :
             /\ mapFile.slots[i].label = i - 1
             /\ (mapFile.slots[i].id = "")
                   => /\ vecFile.recs[i].code = 0
                      /\ (mapFile.prec = HNSW_PRECISION_INT8) => vecFile.recs[i].num = 0

C24_Witness ==
    /\ vecFile.exists /\ mapFile.prec = HNSW_PRECISION_INT8 /\ vecFile.num_vectors >= 2
    /\ \E i \in 1..Len(vecFile.recs) : mapFile.slots[i].id = "" /\ delState["a"] = 2
    /\ \E i \in 1..Len(vecFile.recs) : mapFile.slots[i].id = "b" /\ vecFile.recs[i].code # 0

\* C25 (capacity on compressed reopen), as claimed: open of a FLOAT16 or
\* INT8 index sets the capacity to the larger of the slot count of the
\* mapping file and the default.
C25_CapacityIsMaxOfSlotsAndFloor ==
    (h = "open" /\ last.op = "open" /\ last.ret = 0 /\ precision # HNSW_PRECISION_FLOAT32)
    => max_elements = Max2(mapFile.count, DefaultMaxElements)

\* C25 amended: open of a FLOAT16 or INT8 index sets the capacity of the
\* instance and of the fresh primitive to the slot count of the mapping
\* file, and to the default only when that count is 0.
C25_CapacityIsSlotCount ==
    (h = "open" /\ last.op = "open" /\ last.ret = 0 /\ precision # HNSW_PRECISION_FLOAT32)
    => /\ max_elements = IF mapFile.count = 0 THEN DefaultMaxElements ELSE mapFile.count
       /\ hnsw_max = max_elements

C25_Witness ==
    /\ h = "open" /\ last.op = "open" /\ last.ret = 0
    /\ precision = HNSW_PRECISION_FLOAT16
    /\ mapFile.count = 2 /\ max_elements = 2

\* C26 (no duplicate identifiers in a result list): no two entries of one
\* search result carry the same identifier.
C26_NoDuplicateIds ==
    (h = "open" /\ last.op = "search")
    => \A i \in 1..Len(last.res) : \A j \in 1..Len(last.res) :
          (i # j) => last.res[i].chunk_id # last.res[j].chunk_id

\* C27 (a deleted identifier can be added again): when the last call that
\* changed an identifier's entry was a delete, in this session or in an
\* earlier one, an add of that identifier with the index's dimension during
\* which the primitive does not run out of memory returns 0, and afterwards
\* the identifier is mapped to the new label and that label is the only one
\* whose slot holds the identifier and whose element is not marked deleted.
C27_ReAddStep ==
    (/\ h = "open" /\ last'.op = "add" /\ last'.id # ""
     /\ delState[last'.id] \in {1, 2}
     /\ last'.d = dimension /\ last'.threw # "memory")
    => /\ last'.ret = 0
       /\ id_to_label'[last'.id] = last'.label
       /\ {L \in hnsw_labels(hnsw_elems') :
               /\ L < Len(label_to_id') /\ SlotAt(label_to_id', L) = last'.id
               /\ ~hnsw_elem(hnsw_elems', L).del} = {last'.label}

C27_DeletedCanBeAddedAgain == [][C27_ReAddStep]_vars

\* C28 (close is safe against concurrent callers): the instance is not
\* released while an add, delete or search that has entered its handler is
\* waiting for the instance's mutex.
C28_CloseStep ==
    \A t \in Threads :
        (pc[t] = "wait" /\ call[t].op \in {"add", "delete", "search"} /\ h = "open")
        => h' = "open"

C28_CloseSafe == [][C28_CloseStep]_vars

\* C29 (an index is reopenable only after a persisted mutation), with the
\* writes of close succeeding: while no add on the path has succeeded there
\* is no mapping file; an open that finds no mapping file returns the
\* failure sentinel; and once a session with a successful add has been
\* closed, open with the creation dimension succeeds.
C29_Reopenable ==
    /\ (maxAssigned = NoLabel /\ maxAssignedPrev = NoLabel) => ~mapFile.exists
    /\ (last.op = "open" /\ ~mapFile.exists) => (last.ret = -1 /\ h # "open")
    /\ (last.op = "open" /\ last.d = created.dim /\ maxAssignedPrev # NoLabel)
          => (last.ret = 0 /\ h = "open")

C29_Witness ==
    /\ last.op = "open" /\ last.ret = -1 /\ last.d = created.dim
    /\ h = "freed" /\ session = 1 /\ ~mapFile.exists
    /\ created.prec = HNSW_PRECISION_FLOAT16

====
